---- MODULE Spec2Model ----
(***************************************************************************)
(* Model of the legal-document processor: the section chunker             *)
(* (processor.py), the LLM gateway with retry/backoff (llm_client.py) and  *)
(* the per-document orchestration of the HTTP service (main.py) and of the *)
(* command-line tool (cli.py).                                             *)
(*                                                                         *)
(* A text is a sequence of characters.  The characters of the model are    *)
(* two letters and the two whitespace characters the chunker reacts to.   *)
(***************************************************************************)
EXTENDS Integers, Sequences, FiniteSets, TLC

\* ------------------------------------------------------------------ bounds
MaxTextLen == 7        \* longest input text handed to create_sections
MaxSectionLen == 5     \* largest max_section_length tried
MaxSmallPrompt == 410  \* prompts of every length up to this one are tried
LimitWindow == 8       \* and those within this distance of a threshold
PipeSectionLen == 2    \* max_section_length of the services (stands for 6000)
MaxFiles == 2          \* files uploaded in all, documents in the folder

\* -------------------------------------------------------------- characters
NL == "\n"
SP == " "
Letters == {"a", "b"}
Whitespace == {NL, SP}
Alphabet == Letters \cup Whitespace

TextsUpTo(n) == UNION {[1..k -> Alphabet] : k \in 0..n}

\* ----------------------------------------------------------------- state
VARIABLES
    text,                \* content["text"] handed to create_sections
    max_section_length,  \* DocumentProcessor.max_section_length
    sections,            \* the list create_sections returned
    chunk_pc,            \* "ready" before the call, "returned" after it
    \* --- one call of LLMClient.call_llm
    llm_pc,              \* "idle", "retry_sleep", "retry_call", "returned", "raised"
    llm_prompt,          \* the prompt argument
    llm_model,           \* the model the request is sent with
    attempt,             \* loop variable of _retry_llm_call
    events,              \* what the call did so far: requests and sleeps, in order
    llm_result,          \* <<v>> once call_llm returned v, <<>> before
    llm_error,           \* the exception call_llm raised
    \* --- one call of estimate_tokens / check_token_limit
    tok_pc,              \* "ready", "estimated", "checked"
    prompt_len,          \* len(prompt): the only thing the estimate reads
    tok_model,           \* the model argument of check_token_limit
    estimated_tokens,    \* the estimate computed by the call
    within_limit,        \* the value check_token_limit returned
    \* --- the services
    frontend,            \* "http" (main.py) or "cli" (cli.py), "none" elsewhere
    uploads,             \* files saved under uploads/: path -> extracted text
    processing_status,   \* main.processing_status: job_id -> status record
    processed_files,     \* main.processed_files: file_id -> output paths
    outputs,             \* files the writer saved: path -> content
    tasks,               \* job_id -> locals of its process_documents_async
    cli                  \* locals of CLIProcessor.process_folder

chunk_vars == <<text, max_section_length, sections, chunk_pc>>
llm_vars == <<llm_pc, llm_prompt, llm_model, attempt, events, llm_result,
              llm_error>>
tok_vars == <<tok_pc, prompt_len, tok_model, estimated_tokens, within_limit>>
svc_vars == <<frontend, uploads, processing_status, processed_files, outputs,
              tasks, cli>>
vars == <<chunk_vars, llm_vars, tok_vars, svc_vars>>

\* ------------------------------------------------------- string helpers
\* str.lstrip(): drop leading whitespace
RECURSIVE LStrip(_)
LStrip(s) ==
    IF s # <<>> /\ Head(s) \in Whitespace THEN LStrip(Tail(s)) ELSE s

\* str.rstrip(): drop trailing whitespace
RECURSIVE RStrip(_)
RStrip(s) ==
    IF s # <<>> /\ s[Len(s)] \in Whitespace
    THEN RStrip(SubSeq(s, 1, Len(s) - 1))
    ELSE s

\* str.strip()
Strip(s) == RStrip(LStrip(s))

\* str.split("\n\n"): pieces between non-overlapping occurrences of the
\* separator, found left to right; cur is the piece being collected
RECURSIVE SplitFrom(_, _)
SplitFrom(s, cur) ==
    IF s = <<>> THEN <<cur>>
    ELSE IF Len(s) >= 2 /\ s[1] = NL /\ s[2] = NL
         THEN <<cur>> \o SplitFrom(SubSeq(s, 3, Len(s)), <<>>)
         ELSE SplitFrom(Tail(s), Append(cur, Head(s)))

SplitParagraphs(s) == SplitFrom(s, <<>>)

\* [p.strip() for p in pieces if p.strip()]
RECURSIVE StripNonEmpty(_)
StripNonEmpty(pieces) ==
    IF pieces = <<>> THEN <<>>
    ELSE IF Strip(Head(pieces)) # <<>>
         THEN <<Strip(Head(pieces))>> \o StripNonEmpty(Tail(pieces))
         ELSE StripNonEmpty(Tail(pieces))

\* the paragraph list of _chunk_text
Paragraphs(s) == StripNonEmpty(SplitParagraphs(s))

\* "\n\n".join(parts)
RECURSIVE JoinBlank(_)
JoinBlank(parts) ==
    IF parts = <<>> THEN <<>>
    ELSE IF Len(parts) = 1 THEN parts[1]
         ELSE parts[1] \o <<NL, NL>> \o JoinBlank(Tail(parts))

\* --------------------------------------------------------------- chunker
\* a section dictionary
Section(t, h, n) ==
    [text |-> t, heading |-> h, number |-> "None", section_number |-> n]

FullDocumentHeading == <<"Full Document">>
SectionHeading(n) == <<"Document Section", n>>

\* variant: the buffer is measured without its trailing separator
RECURSIVE ChunkLoopNoSeparator(_, _, _, _, _, _)
ChunkLoopNoSeparator(paragraphs, i, secs, current_text, section_count, maxlen) ==
    IF i > Len(paragraphs)
    THEN IF Strip(current_text) # <<>>
         THEN Append(secs, Section(Strip(current_text),
                                   SectionHeading(section_count + 1),
                                   section_count))
         ELSE secs
    ELSE LET para == paragraphs[i] IN
         IF Len(Strip(current_text)) + Len(para) > maxlen /\ current_text # <<>>
         THEN ChunkLoopNoSeparator(paragraphs, i + 1,
                        Append(secs, Section(Strip(current_text),
                                             SectionHeading(section_count + 1),
                                             section_count)),
                        para \o <<NL, NL>>, section_count + 1, maxlen)
         ELSE ChunkLoopNoSeparator(paragraphs, i + 1, secs,
                        current_text \o para \o <<NL, NL>>,
                        section_count, maxlen)

\* variant: the buffer left after the last paragraph is not emitted
RECURSIVE ChunkLoopNoFinal(_, _, _, _, _, _)
ChunkLoopNoFinal(paragraphs, i, secs, current_text, section_count, maxlen) ==
    IF i > Len(paragraphs)
    THEN secs
    ELSE LET para == paragraphs[i] IN
         IF Len(current_text) + Len(para) > maxlen /\ current_text # <<>>
         THEN ChunkLoopNoFinal(paragraphs, i + 1,
                        Append(secs, Section(Strip(current_text),
                                             SectionHeading(section_count + 1),
                                             section_count)),
                        para \o <<NL, NL>>, section_count + 1, maxlen)
         ELSE ChunkLoopNoFinal(paragraphs, i + 1, secs,
                        current_text \o para \o <<NL, NL>>,
                        section_count, maxlen)

\* variant: the paragraph that overflows the buffer is added to it before
\* the buffer is emitted
RECURSIVE ChunkLoopFlushAfter(_, _, _, _, _, _)
ChunkLoopFlushAfter(paragraphs, i, secs, current_text, section_count, maxlen) ==
    IF i > Len(paragraphs)
    THEN IF Strip(current_text) # <<>>
         THEN Append(secs, Section(Strip(current_text),
                                   SectionHeading(section_count + 1),
                                   section_count))
         ELSE secs
    ELSE LET para == paragraphs[i] IN
         IF Len(current_text) + Len(para) > maxlen /\ current_text # <<>>
         THEN ChunkLoopFlushAfter(paragraphs, i + 1,
                        Append(secs, Section(Strip(current_text \o para),
                                             SectionHeading(section_count + 1),
                                             section_count)),
                        <<>>, section_count + 1, maxlen)
         ELSE ChunkLoopFlushAfter(paragraphs, i + 1, secs,
                        current_text \o para \o <<NL, NL>>,
                        section_count, maxlen)

\* the loop of _chunk_text over paragraphs[i..], followed by the final
\* section
RECURSIVE ChunkLoop(_, _, _, _, _, _)
ChunkLoop(paragraphs, i, secs, current_text, section_count, maxlen) ==
    IF i > Len(paragraphs)
    THEN IF Strip(current_text) # <<>>
         THEN Append(secs, Section(Strip(current_text),
                                   SectionHeading(section_count + 1),
                                   section_count))
         ELSE secs
    ELSE LET para == paragraphs[i] IN
         IF Len(current_text) + Len(para) > maxlen /\ current_text # <<>>
         THEN ChunkLoop(paragraphs, i + 1,
                        Append(secs, Section(Strip(current_text),
                                             SectionHeading(section_count + 1),
                                             section_count)),
                        para \o <<NL, NL>>, section_count + 1, maxlen)
         ELSE ChunkLoop(paragraphs, i + 1, secs,
                        current_text \o para \o <<NL, NL>>,
                        section_count, maxlen)

ChunkText(t, maxlen) == ChunkLoop(Paragraphs(t), 1, <<>>, <<>>, 0, maxlen)

\* variant: the single-section shortcut taken only below the maximum
CreateSectionsStrict(content_text, maxlen) ==
    LET t == Strip(content_text) IN
    IF t = <<>> THEN <<>>
    ELSE IF Len(t) < maxlen
         THEN <<Section(t, FullDocumentHeading, 0)>>
         ELSE ChunkText(t, maxlen)

\* variant: no early return for an empty text
CreateSectionsNoEmptyCheck(content_text, maxlen) ==
    LET t == Strip(content_text) IN
    IF Len(t) <= maxlen
    THEN <<Section(t, FullDocumentHeading, 0)>>
    ELSE ChunkText(t, maxlen)

\* create_sections
CreateSections(content_text, maxlen) ==
    LET t == Strip(content_text) IN
    IF t = <<>> THEN <<>>
    ELSE IF Len(t) <= maxlen
         THEN <<Section(t, FullDocumentHeading, 0)>>
         ELSE ChunkText(t, maxlen)

\* ------------------------------------------------------------ LLM gateway
max_retries == 3
base_delay == 1
default_model == "deepseek/deepseek-v3.1"

NoValue == "none"
Prompts == {"p1", "p2"}
Results == {<<"x">>, <<"y">>}     \* completions: texts
Errors == {"e1", "e2"}            \* exceptions of the transport

\* what one request to the remote endpoint (_call_novita) can do: return a
\* completion or raise
EndpointOutcomes ==
    [ok : {TRUE}, result : Results, error : {NoValue}]
        \cup [ok : {FALSE}, result : {<<>>}, error : Errors]

RECURSIVE Pow2(_)
Pow2(n) == IF n = 0 THEN 1 ELSE 2 * Pow2(n - 1)

\* variant: the same delay before every retry
DelayConstant(att) == base_delay

\* delay = self.base_delay * (2 ** attempt)
Delay(att) == base_delay * Pow2(att)

\* variant: gives up one retry early
IsLastRetryEarly(att) == att = max_retries - 2

\* if attempt == self.max_retries - 1: raise
IsLastRetry(att) == att = max_retries - 1

CallEvent(o) ==
    [kind |-> "call", ok |-> o.ok, result |-> o.result, error |-> o.error,
     delay |-> 0]
SleepEvent(d) ==
    [kind |-> "sleep", ok |-> TRUE, result |-> <<>>, error |-> NoValue,
     delay |-> d]

\* call_llm: resolve the model, make the primary request; a failure hands
\* over to _retry_llm_call
CallLLM(prompt, model, o) ==
    /\ llm_pc = "idle"
    /\ llm_prompt' = prompt
    /\ llm_model' = IF model = NoValue THEN default_model ELSE model
    /\ events' = <<CallEvent(o)>>
    /\ IF o.ok
       THEN /\ llm_pc' = "returned"
            /\ llm_result' = <<o.result>>
            /\ UNCHANGED attempt
       ELSE /\ llm_pc' = "retry_sleep"
            /\ attempt' = 0
            /\ UNCHANGED llm_result
    /\ UNCHANGED <<llm_error, chunk_vars, tok_vars, svc_vars>>

\* _retry_llm_call, top of the loop body: time.sleep(delay)
RetrySleep ==
    /\ llm_pc = "retry_sleep"
    /\ attempt < max_retries
    /\ events' = Append(events, SleepEvent(Delay(attempt)))
    /\ llm_pc' = "retry_call"
    /\ UNCHANGED <<llm_prompt, llm_model, attempt, llm_result, llm_error>>
    /\ UNCHANGED <<chunk_vars, tok_vars, svc_vars>>

\* _retry_llm_call, rest of the loop body: the request, and on failure
\* either the next iteration or the re-raise in the last one
RetryCall(o) ==
    /\ llm_pc = "retry_call"
    /\ events' = Append(events, CallEvent(o))
    /\ IF o.ok
       THEN /\ llm_pc' = "returned"
            /\ llm_result' = <<o.result>>
            /\ UNCHANGED <<attempt, llm_error>>
       ELSE IF IsLastRetry(attempt)
            THEN /\ llm_pc' = "raised"
                 /\ llm_error' = o.error
                 /\ UNCHANGED <<attempt, llm_result>>
            ELSE /\ llm_pc' = "retry_sleep"
                 /\ attempt' = attempt + 1
                 /\ UNCHANGED <<llm_result, llm_error>>
    /\ UNCHANGED <<llm_prompt, llm_model, chunk_vars, tok_vars, svc_vars>>

LLMIdle ==
    /\ llm_pc = "idle"
    /\ llm_prompt = NoValue
    /\ llm_model = NoValue
    /\ attempt = 0
    /\ events = <<>>
    /\ llm_result = <<>>
    /\ llm_error = NoValue

\* ------------------------------------------------------- token estimate
\* variant: rounds up
EstimateTokensCeil(n) == (n + 3) \div 4

\* return len(text) // 4
EstimateTokens(n) == n \div 4

limits ==
    [m \in {"deepseek/deepseek-r1-distill-llama-8b", "gpt-4",
            "gpt-3.5-turbo", "gpt-4-32k"} |->
        CASE m = "deepseek/deepseek-r1-distill-llama-8b" -> 8192
          [] m = "gpt-4" -> 8000
          [] m = "gpt-3.5-turbo" -> 4000
          [] m = "gpt-4-32k" -> 32000]

DefaultLimit == 4000

\* limits.get(model, 4000)
LimitOf(m) == IF m \in DOMAIN limits THEN limits[m] ELSE DefaultLimit

\* variant: a prompt exactly at the threshold passes
CheckTokenLimitInclusive(n, m) == 10 * EstimateTokens(n) <= 8 * LimitOf(m)

\* estimated_tokens < limit * 0.8; the estimate is an integer and 0.8 is
\* 8/10, so the comparison is 10 * estimate < 8 * limit (the rounding of
\* the floating-point product is far below 1)
CheckTokenLimit(n, m) == 10 * EstimateTokens(n) < 8 * LimitOf(m)

Models == DOMAIN limits \cup {"unlisted-model"}

\* the prompt length up to which a model's check passes, for every limit
\* of the table and the default
Thresholds == {4 * ((8 * l) \div 10) : l \in {limits[m] : m \in DOMAIN limits}
                                            \cup {DefaultLimit}}

Near(t) == {n \in (t - LimitWindow)..(t + LimitWindow) : n >= 0}

PromptLens == (0..MaxSmallPrompt) \cup UNION {Near(t) : t \in Thresholds}

TokIdle ==
    /\ tok_pc = "ready"
    /\ prompt_len = 0
    /\ tok_model = NoValue
    /\ estimated_tokens = 0
    /\ within_limit = FALSE

CallEstimateTokens ==
    /\ tok_pc = "ready"
    /\ estimated_tokens' = EstimateTokens(prompt_len)
    /\ tok_pc' = "estimated"
    /\ UNCHANGED <<prompt_len, tok_model, within_limit>>
    /\ UNCHANGED <<chunk_vars, llm_vars, svc_vars>>

CallCheckTokenLimit ==
    /\ tok_pc = "ready"
    /\ estimated_tokens' = EstimateTokens(prompt_len)
    /\ within_limit' = CheckTokenLimit(prompt_len, tok_model)
    /\ tok_pc' = "checked"
    /\ UNCHANGED <<prompt_len, tok_model, chunk_vars, llm_vars, svc_vars>>

\* -------------------------------------------------------------- services
\* a file name is a stem and an extension
FileName(stem, ext) == [stem |-> stem, ext |-> ext]

\* DocumentReader.supported_formats
SupportedFormats == {".pdf", ".docx", ".txt"}

\* the documents of the model, each with the text the reader extracts from
\* it: nothing but whitespace, one section, two sections, and a file the
\* reader rejects
Doc(name, t) == [filename |-> name, text |-> t]

Docs ==
    {Doc(FileName("c", ".txt"), <<SP>>),
     Doc(FileName("a", ".txt"), <<"a">>),
     Doc(FileName("a", ".pdf"), <<"a", NL, NL, "b">>),
     Doc(FileName("b", ".exe"), <<"a">>)}

FileLists == UNION {[1..n -> Docs] : n \in 1..MaxFiles}

\* the completion of the n-th gateway call of run r: a text that no other
\* call returns
Completion(r, n) == <<"c" \o ToString(r) \o "." \o ToString(n)>>

\* what one call_llm_async can do when it is the n-th of run r: return a
\* completion, or raise the error of its last request
GatewayOutcomes(r, n) ==
    {[ok |-> TRUE, result |-> Completion(r, n), error |-> NoValue]}
        \cup [ok : {FALSE}, result : {<<>>}, error : Errors]

\* f with key k set to v
Put(f, k, v) == [x \in DOMAIN f \cup {k} |-> IF x = k THEN v ELSE f[x]]

\* create_plain_english_prompt / create_summary_prompt: a fixed template
\* around the section's heading and text
PlainEnglishPrompt(section) ==
    [template |-> "plain_english", heading |-> section.heading,
     text |-> section.text]
SummaryPrompt(section) ==
    [template |-> "summary", heading |-> section.heading,
     text |-> section.text]

\* DocumentReader.read_document: raises for an unsupported extension,
\* otherwise returns the extracted text of the file
ReadFails(filename) == filename.ext \notin SupportedFormats
ReadError(filename) == "Unsupported file format: " \o filename.ext

\* a path: absolute or relative, the directories, the file name
Path(absolute, dir, file) == [absolute |-> absolute, dir |-> dir, file |-> file]
DirOf(p) == [absolute |-> p.absolute, dir |-> p.dir]

\* f"uploads/{file_id}_{file.filename}"
UploadPath(file_id, filename) ==
    Path(FALSE, <<"uploads">>, [id |-> file_id, name |-> filename])

\* f"{base_name}_plainEnglish.docx", f"{base_name}_summary.docx"
OutputName(base_name, suffix) == [stem |-> base_name, suffix |-> suffix]

\* DocumentWriter.write_docx: os.path.join(self.output_dir, filename); an
\* absolute second argument replaces the first
WriterPath(p) ==
    IF p.absolute THEN p ELSE Path(FALSE, <<"outputs">> \o p.dir, p.file)

\* doc.save(file_path) raises when the directory does not exist
SaveFails(p, dirs) == DirOf(p) \notin dirs
SaveError == "FileNotFoundError"

\* os.path.splitext(original_filename)[0], Path.stem
BaseName(filename) == filename.stem

\* variant: the newest completion goes first
PrependCompletion(acc, r) == <<r>> \o acc

\* plain_english_content.append(plain_result)
AppendCompletion(acc, r) == Append(acc, r)

\* the entry of the gateway log for the call of task t that just ended
CallRecord(t, mode, prompt, o) ==
    [file |-> t.i, section |-> t.sections[t.k].section_number,
     mode |-> mode, prompt |-> prompt,
     ok |-> o.ok, result |-> o.result, error |-> o.error]

\* the entry of the write log for one call of write_docx
WriteRecord(i, p, parts, content, ok) ==
    [file |-> i, path |-> p, parts |-> parts, content |-> content, ok |-> ok]

\* ----- HTTP service (main.py)
\* the locals of a process_documents_async that has not started; calls and
\* writes are the history of its gateway and writer calls
NewTask(file_info) ==
    [pc |-> "queued", file_info |-> file_info, i |-> 1,
     sections |-> <<>>, k |-> 1,
     plain_english_content |-> <<>>, summary_content |-> <<>>,
     calls |-> <<>>, writes |-> <<>>]

\* The state one process_documents_async works on is a record of its job's
\* entry of processing_status (ps), processed_files (pf), the output
\* directory (out) and its locals (t).  File i of the code is file i + 1
\* here.

\* variant: a file without content is marked completed without writing
\* its outputs
HttpFinishFileSkipEmpty(S) ==
    LET t == S.t
        fd == t.file_info[t.i]
        base_name == BaseName(fd.original_filename)
        plain_text == JoinBlank(t.plain_english_content)
        summary_text == JoinBlank(t.summary_content)
        plain_path ==
            WriterPath(Path(FALSE, <<>>,
                            OutputName(base_name, "_plainEnglish.docx")))
        summary_path ==
            WriterPath(Path(FALSE, <<>>,
                            OutputName(base_name, "_summary.docx")))
        skip == t.plain_english_content = <<>> /\ t.summary_content = <<>>
    IN  [ps |-> [S.ps EXCEPT !.files[t.i].status = "completed",
                             !.files[t.i].file_id = <<fd.file_id>>,
                             !.completed_files = @ + 1],
         pf |-> Put(S.pf, fd.file_id,
                    [plain_english |-> plain_path, summary |-> summary_path]),
         out |-> IF skip THEN S.out
                 ELSE Put(Put(S.out, plain_path, plain_text),
                          summary_path, summary_text),
         t |-> IF skip THEN t
               ELSE [t EXCEPT !.writes = @ \o
                  <<WriteRecord(t.i, plain_path, t.plain_english_content,
                                plain_text, TRUE),
                    WriteRecord(t.i, summary_path, t.summary_content,
                                summary_text, TRUE)>>]]

\* variant: the outputs are written and the file is marked completed, but
\* their paths are not recorded
HttpFinishFileNoEntry(S) ==
    LET t == S.t
        fd == t.file_info[t.i]
        base_name == BaseName(fd.original_filename)
        plain_text == JoinBlank(t.plain_english_content)
        summary_text == JoinBlank(t.summary_content)
        plain_path ==
            WriterPath(Path(FALSE, <<>>,
                            OutputName(base_name, "_plainEnglish.docx")))
        summary_path ==
            WriterPath(Path(FALSE, <<>>,
                            OutputName(base_name, "_summary.docx")))
    IN  [ps |-> [S.ps EXCEPT !.files[t.i].status = "completed",
                             !.files[t.i].file_id = <<fd.file_id>>,
                             !.completed_files = @ + 1],
         pf |-> S.pf,
         out |-> Put(Put(S.out, plain_path, plain_text),
                     summary_path, summary_text),
         t |-> [t EXCEPT !.writes = @ \o
                  <<WriteRecord(t.i, plain_path, t.plain_english_content,
                                plain_text, TRUE),
                    WriteRecord(t.i, summary_path, t.summary_content,
                                summary_text, TRUE)>>]]

\* lines 163-187: write both outputs, record their paths, mark the file
\* completed
HttpFinishFile(S) ==
    LET t == S.t
        fd == t.file_info[t.i]
        base_name == BaseName(fd.original_filename)
        plain_text == JoinBlank(t.plain_english_content)
        summary_text == JoinBlank(t.summary_content)
        plain_path ==
            WriterPath(Path(FALSE, <<>>,
                            OutputName(base_name, "_plainEnglish.docx")))
        summary_path ==
            WriterPath(Path(FALSE, <<>>,
                            OutputName(base_name, "_summary.docx")))
    IN  [ps |-> [S.ps EXCEPT !.files[t.i].status = "completed",
                             !.files[t.i].file_id = <<fd.file_id>>,
                             !.completed_files = @ + 1],
         pf |-> Put(S.pf, fd.file_id,
                    [plain_english |-> plain_path, summary |-> summary_path]),
         out |-> Put(Put(S.out, plain_path, plain_text),
                     summary_path, summary_text),
         t |-> [t EXCEPT !.writes = @ \o
                  <<WriteRecord(t.i, plain_path, t.plain_english_content,
                                plain_text, TRUE),
                    WriteRecord(t.i, summary_path, t.summary_content,
                                summary_text, TRUE)>>]]

\* variant: the except branch records the message and leaves the status
\* of the file as it is
HttpFileErrorNoStatus(S, e) ==
    [S EXCEPT !.ps.files[S.t.i].error = <<e>>]

\* lines 189-192: the except branch of one file
HttpFileError(S, e) ==
    [S EXCEPT !.ps.files[S.t.i].status = "error",
              !.ps.files[S.t.i].error = <<e>>]

\* the for loop of process_documents_async from file t.i on, run up to the
\* first awaited gateway call, or to the end of the job (lines 132-197)
RECURSIVE HttpRunFiles(_, _, _)
HttpRunFiles(S, disk, maxlen) ==
    LET t == S.t IN
    IF t.i > Len(t.file_info)
    THEN [S EXCEPT !.ps.status = "completed", !.t.pc = "done"]
    ELSE LET fd == t.file_info[t.i]
             S1 == [S EXCEPT !.ps.files[t.i].status = "processing"]
         IN  IF ReadFails(fd.original_filename)
             THEN HttpRunFiles(
                      [HttpFileError(S1, ReadError(fd.original_filename))
                          EXCEPT !.t.i = @ + 1], disk, maxlen)
             ELSE LET secs == CreateSections(disk[fd.file_path], maxlen)
                      S2 == [S1 EXCEPT !.t.sections = secs,
                                       !.t.k = 1,
                                       !.t.plain_english_content = <<>>,
                                       !.t.summary_content = <<>>]
                  IN  IF secs = <<>>
                      THEN HttpRunFiles(
                               [HttpFinishFile(S2) EXCEPT !.t.i = @ + 1],
                               disk, maxlen)
                      ELSE [S2 EXCEPT !.t.pc = "await_plain"]

HttpState(j) ==
    [ps |-> processing_status[j], pf |-> processed_files, out |-> outputs,
     t |-> tasks[j]]

\* variant: one status record for all jobs
HttpCommitShared(j, S) ==
    /\ processing_status' = [x \in DOMAIN processing_status |-> S.ps]
    /\ processed_files' = S.pf
    /\ outputs' = S.out
    /\ tasks' = [tasks EXCEPT ![j] = S.t]

\* a step of the run of job j stores what it changed: the entry of its own
\* job in processing_status, the shared processed_files and output
\* directory, its locals
HttpCommit(j, S) ==
    /\ processing_status' = [processing_status EXCEPT ![j] = S.ps]
    /\ processed_files' = S.pf
    /\ outputs' = S.out
    /\ tasks' = [tasks EXCEPT ![j] = S.t]

\* what no step of the services touches
HttpUnchanged ==
    UNCHANGED <<frontend, max_section_length, text, sections, chunk_pc,
                llm_vars, tok_vars>>

\* the number of files uploaded so far
RECURSIVE TotalFiles(_, _)
TotalFiles(ps, ids) ==
    IF ids = {} THEN 0
    ELSE LET j == CHOOSE x \in ids : TRUE
         IN  ps[j].total_files + TotalFiles(ps, ids \ {j})

\* POST /upload: save the files, create the job entry, queue the
\* background task (lines 43-88); job and file identifiers are fresh
UploadDocuments(files) ==
    /\ frontend = "http"
    /\ TotalFiles(processing_status, DOMAIN processing_status) + Len(files)
           <= MaxFiles
    /\ LET job_id == Cardinality(DOMAIN processing_status) + 1
           file_info ==
               [i \in 1..Len(files) |->
                   [title |-> files[i].filename,
                    original_filename |-> files[i].filename,
                    file_path |-> UploadPath(<<job_id, i>>, files[i].filename),
                    file_id |-> <<job_id, i>>]]
       IN  /\ uploads' =
                [q \in DOMAIN uploads
                         \cup {file_info[i].file_path : i \in 1..Len(files)} |->
                    IF q \in DOMAIN uploads THEN uploads[q]
                    ELSE files[CHOOSE i \in 1..Len(files) :
                                   file_info[i].file_path = q].text]
           /\ processing_status' =
                Put(processing_status, job_id,
                    [status |-> "queued",
                     files |-> [i \in 1..Len(files) |->
                                  [filename |-> files[i].filename,
                                   status |-> "queued",
                                   file_id |-> <<>>, error |-> <<>>]],
                     total_files |-> Len(files),
                     completed_files |-> 0])
           /\ tasks' = Put(tasks, job_id, NewTask(file_info))
    /\ UNCHANGED <<processed_files, outputs, cli>>
    /\ HttpUnchanged

\* the background task starts: line 129, then the loop up to its first
\* awaited call
StartJob(j) ==
    /\ frontend = "http"
    /\ tasks[j].pc = "queued"
    /\ HttpCommit(j, HttpRunFiles(
                        [HttpState(j) EXCEPT !.ps.status = "processing"],
                        uploads, max_section_length))
    /\ UNCHANGED <<uploads, cli>>
    /\ HttpUnchanged

\* variant: a failed plain-English call is logged and skipped, and the
\* section loop goes on with the summary call
PlainReturnsContinues(j, o) ==
    /\ frontend = "http"
    /\ tasks[j].pc = "await_plain"
    /\ LET t == tasks[j]
           prompt == PlainEnglishPrompt(t.sections[t.k])
           S == [HttpState(j) EXCEPT
                    !.t.calls = Append(@, CallRecord(t, "plain_english",
                                                     prompt, o))]
       IN  IF o.ok
           THEN HttpCommit(j, [S EXCEPT
                    !.t.plain_english_content = AppendCompletion(@, o.result),
                    !.t.pc = "await_summary"])
           ELSE HttpCommit(j, [S EXCEPT !.t.pc = "await_summary"])
    /\ UNCHANGED <<uploads, cli>>
    /\ HttpUnchanged

\* the awaited plain-English call of section k ends (lines 154-156): on a
\* result, append it and issue the summary call; on an exception, the
\* except branch and the next files
PlainReturns(j, o) ==
    /\ frontend = "http"
    /\ tasks[j].pc = "await_plain"
    /\ LET t == tasks[j]
           prompt == PlainEnglishPrompt(t.sections[t.k])
           S == [HttpState(j) EXCEPT
                    !.t.calls = Append(@, CallRecord(t, "plain_english",
                                                     prompt, o))]
       IN  IF o.ok
           THEN HttpCommit(j, [S EXCEPT
                    !.t.plain_english_content = AppendCompletion(@, o.result),
                    !.t.pc = "await_summary"])
           ELSE HttpCommit(j, HttpRunFiles(
                    [HttpFileError(S, o.error) EXCEPT !.t.i = @ + 1],
                    uploads, max_section_length))
    /\ UNCHANGED <<uploads, cli>>
    /\ HttpUnchanged

\* variant: after the summary of a section the loop asks for the summary
\* of the next section, not for its plain-English version
SummaryReturnsSkipsPlain(j, o) ==
    /\ frontend = "http"
    /\ tasks[j].pc = "await_summary"
    /\ LET t == tasks[j]
           prompt == SummaryPrompt(t.sections[t.k])
           S == [HttpState(j) EXCEPT
                    !.t.calls = Append(@, CallRecord(t, "summary",
                                                     prompt, o))]
       IN  IF o.ok
           THEN HttpCommit(j, [S EXCEPT
                    !.t.summary_content = AppendCompletion(@, o.result),
                    !.t.k = IF t.k < Len(t.sections) THEN @ + 1 ELSE @,
                    !.t.pc = IF t.k < Len(t.sections) THEN "await_summary"
                                                      ELSE "write"])
           ELSE HttpCommit(j, HttpRunFiles(
                    [HttpFileError(S, o.error) EXCEPT !.t.i = @ + 1],
                    uploads, max_section_length))
    /\ UNCHANGED <<uploads, cli>>
    /\ HttpUnchanged

\* the awaited summary call of section k ends (lines 159-161): on a
\* result, append it and issue the plain-English call of the next section,
\* or leave the loop after the last one; on an exception, the except
\* branch and the next files
SummaryReturns(j, o) ==
    /\ frontend = "http"
    /\ tasks[j].pc = "await_summary"
    /\ LET t == tasks[j]
           prompt == SummaryPrompt(t.sections[t.k])
           S == [HttpState(j) EXCEPT
                    !.t.calls = Append(@, CallRecord(t, "summary",
                                                     prompt, o))]
       IN  IF o.ok
           THEN HttpCommit(j, [S EXCEPT
                    !.t.summary_content = AppendCompletion(@, o.result),
                    !.t.k = IF t.k < Len(t.sections) THEN @ + 1 ELSE @,
                    !.t.pc = IF t.k < Len(t.sections) THEN "await_plain"
                                                      ELSE "write"])
           ELSE HttpCommit(j, HttpRunFiles(
                    [HttpFileError(S, o.error) EXCEPT !.t.i = @ + 1],
                    uploads, max_section_length))
    /\ UNCHANGED <<uploads, cli>>
    /\ HttpUnchanged

\* after the last section: lines 163-187, then the next files.  Nothing
\* but locals changed since the last call returned, so this step and that
\* one are a single step for every other handler.
WriteOutputs(j) ==
    /\ frontend = "http"
    /\ tasks[j].pc = "write"
    /\ HttpCommit(j, HttpRunFiles(
                        [HttpFinishFile(HttpState(j)) EXCEPT !.t.i = @ + 1],
                        uploads, max_section_length))
    /\ UNCHANGED <<uploads, cli>>
    /\ HttpUnchanged

\* GET /download/{file_id}/{file_type} (lines 102-124): the response code
\* and the path of the file served; the handler changes nothing
DownloadFile(file_id, file_type) ==
    IF file_id \notin DOMAIN processed_files
    THEN [code |-> 404, path |-> <<>>]
    ELSE IF file_type \notin {"plain", "summary"}
    THEN [code |-> 400, path |-> <<>>]
    ELSE LET file_paths == processed_files[file_id]
             file_path == IF file_type = "plain" THEN file_paths.plain_english
                                                 ELSE file_paths.summary
         IN  IF file_path \notin DOMAIN outputs
             THEN [code |-> 404, path |-> <<>>]
             ELSE [code |-> 200, path |-> <<file_path>>]

\* ----- command-line tool (cli.py)
\* The state process_folder works on is a record of the output directory
\* (out) and its locals (c).  The input folder exists; the directories
\* that exist are outputs/ (DocumentWriter.__init__) and the output folder
\* (process_folder, line 41).
OutputsDir == [absolute |-> FALSE, dir |-> <<"outputs">>]

Folders == {[absolute |-> TRUE, dir |-> <<"out">>],
            [absolute |-> FALSE, dir |-> <<"out">>]}

\* the position of an extension in supported_extensions (line 44)
ExtRank(ext) == CASE ext = ".pdf" -> 1 [] ext = ".docx" -> 2 [] OTHER -> 3

\* what the glob loop (lines 47-48) can collect from a folder: its
\* supported documents, grouped by extension
DocumentLists ==
    {ds \in UNION {[1..n -> Docs] : n \in 0..MaxFiles} :
        /\ \A i \in 1..Len(ds) : ds[i].filename.ext \in SupportedFormats
        /\ \A i, k \in 1..Len(ds) :
              i < k => /\ ds[i].filename # ds[k].filename
                       /\ ExtRank(ds[i].filename.ext)
                              <= ExtRank(ds[k].filename.ext)}

NewCli(documents, output_folder) ==
    [pc |-> "start", documents |-> documents,
     output_folder |-> output_folder, i |-> 1,
     sections |-> <<>>, k |-> 1,
     plain_english_parts |-> <<>>, summary_parts |-> <<>>,
     calls |-> <<>>, writes |-> <<>>, report |-> <<>>]

Report(i, kind, detail) == [file |-> i, kind |-> kind, detail |-> detail]

\* lines 116-119: the except branch of process_single_document
CliDocumentError(S, e) ==
    [S EXCEPT !.c.report = Append(@, Report(S.c.i, "error", e))]

\* lines 95-114: write both outputs and report them; a failing write
\* raises into the except branch
CliFinishDocument(S) ==
    LET c == S.c
        base_name == BaseName(c.documents[c.i].filename)
        dirs == {OutputsDir, c.output_folder}
        plain_text == JoinBlank(c.plain_english_parts)
        summary_text == JoinBlank(c.summary_parts)
        plain_path ==
            WriterPath(Path(c.output_folder.absolute, c.output_folder.dir,
                            OutputName(base_name, "_plainEnglish.docx")))
        summary_path ==
            WriterPath(Path(c.output_folder.absolute, c.output_folder.dir,
                            OutputName(base_name, "_summary.docx")))
        plain_write == WriteRecord(c.i, plain_path, c.plain_english_parts,
                                   plain_text, ~SaveFails(plain_path, dirs))
        summary_write == WriteRecord(c.i, summary_path, c.summary_parts,
                                     summary_text,
                                     ~SaveFails(summary_path, dirs))
    IN  IF SaveFails(plain_path, dirs)
        THEN CliDocumentError(
                 [S EXCEPT !.c.writes = Append(@, plain_write)], SaveError)
        ELSE IF SaveFails(summary_path, dirs)
        THEN CliDocumentError(
                 [S EXCEPT !.out = Put(@, plain_path, plain_text),
                           !.c.writes = @ \o <<plain_write, summary_write>>],
                 SaveError)
        ELSE [S EXCEPT !.out = Put(Put(@, plain_path, plain_text),
                                   summary_path, summary_text),
                       !.c.writes = @ \o <<plain_write, summary_write>>,
                       !.c.report = Append(@, Report(c.i, "generated",
                                       <<plain_path.file, summary_path.file>>))]

\* the loop of process_folder from document c.i on (lines 56-60), each
\* document by process_single_document (lines 66-119), run up to the first
\* awaited gateway call or to the end of the batch
RECURSIVE CliRunDocuments(_, _)
CliRunDocuments(S, maxlen) ==
    LET c == S.c IN
    IF c.i > Len(c.documents)
    THEN [S EXCEPT !.c.pc = "done",
                   !.c.report = Append(@, Report(0, "batch completed", <<>>))]
    ELSE LET secs == CreateSections(c.documents[c.i].text, maxlen)
             S1 == [S EXCEPT !.c.sections = secs,
                             !.c.k = 1,
                             !.c.plain_english_parts = <<>>,
                             !.c.summary_parts = <<>>]
         IN  IF secs = <<>>
             THEN CliRunDocuments(
                      [CliFinishDocument(S1) EXCEPT !.c.i = @ + 1], maxlen)
             ELSE [S1 EXCEPT !.c.pc = "await_plain"]

CliState == [out |-> outputs, c |-> cli]

CliCommit(S) ==
    /\ outputs' = S.out
    /\ cli' = S.c

CliUnchanged ==
    UNCHANGED <<uploads, processing_status, processed_files, tasks, frontend,
                max_section_length, text, sections, chunk_pc, llm_vars,
                tok_vars>>

\* process_folder starts (lines 31-60): nothing to do for an empty folder
\* (lines 50-52), otherwise the loop up to its first awaited call
CliStart ==
    /\ frontend = "cli"
    /\ cli.pc = "start"
    /\ IF cli.documents = <<>>
       THEN CliCommit([CliState EXCEPT
                !.c.pc = "done",
                !.c.report = Append(@, Report(0, "no documents", <<>>))])
       ELSE CliCommit(CliRunDocuments(CliState, max_section_length))
    /\ CliUnchanged

\* the awaited plain-English call of section k ends (lines 86-88)
CliPlainReturns(o) ==
    /\ frontend = "cli"
    /\ cli.pc = "await_plain"
    /\ LET prompt == PlainEnglishPrompt(cli.sections[cli.k])
           S == [CliState EXCEPT
                    !.c.calls = Append(@, CallRecord(cli, "plain_english",
                                                     prompt, o))]
       IN  IF o.ok
           THEN CliCommit([S EXCEPT
                    !.c.plain_english_parts = AppendCompletion(@, o.result),
                    !.c.pc = "await_summary"])
           ELSE CliCommit(CliRunDocuments(
                    [CliDocumentError(S, o.error) EXCEPT !.c.i = @ + 1],
                    max_section_length))
    /\ CliUnchanged

\* the awaited summary call of section k ends (lines 91-93)
CliSummaryReturns(o) ==
    /\ frontend = "cli"
    /\ cli.pc = "await_summary"
    /\ LET prompt == SummaryPrompt(cli.sections[cli.k])
           S == [CliState EXCEPT
                    !.c.calls = Append(@, CallRecord(cli, "summary",
                                                     prompt, o))]
       IN  IF o.ok
           THEN CliCommit([S EXCEPT
                    !.c.summary_parts = AppendCompletion(@, o.result),
                    !.c.k = IF cli.k < Len(cli.sections) THEN @ + 1 ELSE @,
                    !.c.pc = IF cli.k < Len(cli.sections) THEN "await_plain"
                                                          ELSE "write"])
           ELSE CliCommit(CliRunDocuments(
                    [CliDocumentError(S, o.error) EXCEPT !.c.i = @ + 1],
                    max_section_length))
    /\ CliUnchanged

\* after the last section: lines 95-114, then the next documents
CliWriteOutputs ==
    /\ frontend = "cli"
    /\ cli.pc = "write"
    /\ CliCommit(CliRunDocuments(
                    [CliFinishDocument(CliState) EXCEPT !.c.i = @ + 1],
                    max_section_length))
    /\ CliUnchanged

EmptyMap == [x \in {} |-> 0]

\* no command-line run in this process
NoCli == [NewCli(<<>>, OutputsDir) EXCEPT !.pc = "none"]

SvcIdle ==
    /\ frontend = "none"
    /\ uploads = EmptyMap
    /\ processing_status = EmptyMap
    /\ processed_files = EmptyMap
    /\ outputs = EmptyMap
    /\ tasks = EmptyMap
    /\ cli = NoCli

\* ------------------------------------------------ chunker specification
ChunkIdle ==
    /\ text = <<>>
    /\ max_section_length = 1
    /\ sections = <<>>
    /\ chunk_pc = "ready"

ChunkInit ==
    /\ text \in TextsUpTo(MaxTextLen)
    /\ max_section_length \in 1..MaxSectionLen
    /\ sections = <<>>
    /\ chunk_pc = "ready"
    /\ LLMIdle
    /\ TokIdle
    /\ SvcIdle

\* one call of create_sections on the current input
CallCreateSections ==
    /\ chunk_pc = "ready"
    /\ sections' = CreateSections(text, max_section_length)
    /\ chunk_pc' = "returned"
    /\ UNCHANGED <<text, max_section_length, llm_vars, tok_vars, svc_vars>>

ChunkNext == CallCreateSections

ChunkSpec == ChunkInit /\ [][ChunkNext]_vars

\* ------------------------------------------------ gateway specification
LLMInit == LLMIdle /\ ChunkIdle /\ TokIdle /\ SvcIdle

LLMNext ==
    \/ \E p \in Prompts, m \in {NoValue, "gpt-4"}, o \in EndpointOutcomes :
          CallLLM(p, m, o)
    \/ RetrySleep
    \/ \E o \in EndpointOutcomes : RetryCall(o)

LLMSpec == LLMInit /\ [][LLMNext]_vars

\* ------------------------------------------ token-estimate specification
TokInit ==
    /\ tok_pc = "ready"
    /\ prompt_len \in PromptLens
    /\ tok_model \in Models
    /\ estimated_tokens = 0
    /\ within_limit = FALSE
    /\ ChunkIdle
    /\ LLMIdle
    /\ SvcIdle

TokNext == CallEstimateTokens \/ CallCheckTokenLimit

TokSpec == TokInit /\ [][TokNext]_vars


\* ------------------------------------------------ service specification
\* the process runs either the HTTP service or the command-line tool
SvcInit ==
    /\ frontend \in {"http", "cli"}
    /\ uploads = EmptyMap
    /\ processing_status = EmptyMap
    /\ processed_files = EmptyMap
    /\ outputs = EmptyMap
    /\ tasks = EmptyMap
    /\ IF frontend = "cli"
       THEN cli \in {NewCli(ds, f) : ds \in DocumentLists, f \in Folders}
       ELSE cli = NoCli
    /\ text = <<>>
    /\ max_section_length = PipeSectionLen
    /\ sections = <<>>
    /\ chunk_pc = "ready"
    /\ LLMIdle
    /\ TokIdle

SvcNext ==
    \/ \E files \in FileLists : UploadDocuments(files)
    \/ \E j \in DOMAIN tasks : StartJob(j)
    \/ \E j \in DOMAIN tasks :
          \E o \in GatewayOutcomes(j, Len(tasks[j].calls) + 1) :
             PlainReturns(j, o)
    \/ \E j \in DOMAIN tasks :
          \E o \in GatewayOutcomes(j, Len(tasks[j].calls) + 1) :
             SummaryReturns(j, o)
    \/ \E j \in DOMAIN tasks : WriteOutputs(j)
    \/ CliStart
    \/ \E o \in GatewayOutcomes(0, Len(cli.calls) + 1) : CliPlainReturns(o)
    \/ \E o \in GatewayOutcomes(0, Len(cli.calls) + 1) : CliSummaryReturns(o)
    \/ CliWriteOutputs

SvcSpec == SvcInit /\ [][SvcNext]_vars

\* the steps of the background task of job j, and of the folder run
JobStep(j) ==
    /\ j \in DOMAIN tasks
    /\ \/ StartJob(j)
       \/ \E o \in GatewayOutcomes(j, Len(tasks[j].calls) + 1) :
             PlainReturns(j, o)
       \/ \E o \in GatewayOutcomes(j, Len(tasks[j].calls) + 1) :
             SummaryReturns(j, o)
       \/ WriteOutputs(j)

CliStep ==
    \/ CliStart
    \/ \E o \in GatewayOutcomes(0, Len(cli.calls) + 1) : CliPlainReturns(o)
    \/ \E o \in GatewayOutcomes(0, Len(cli.calls) + 1) : CliSummaryReturns(o)
    \/ CliWriteOutputs

\* a step of the run of job j, of the folder run, is possible: the run
\* has not ended (every position but the last has a step, whatever the
\* gateway answers)
Runnable(j) == j \in DOMAIN tasks /\ tasks[j].pc # "done"
CliRunnable == frontend = "cli" /\ cli.pc # "done"

\* The event loop runs every queued background task (add_task, main.py
\* line 84; asyncio.run, cli.py line 150) and resumes every coroutine
\* whose awaited call has ended; a gateway call ends, with a completion or
\* with the exception of its last retry (at most 1 + max_retries
\* requests).  This is WF_vars(JobStep(j)) for every job and
\* WF_vars(CliStep), written out with Runnable(j) and CliRunnable for
\* ENABLED <<JobStep(j)>>_vars and ENABLED <<CliStep>>_vars.  Job
\* identifiers are 1..MaxFiles at most, every job having a file.
SvcFairSpec ==
    /\ SvcSpec
    /\ \A j \in 1..MaxFiles : <>[]Runnable(j) => []<><<JobStep(j)>>_vars
    /\ <>[]CliRunnable => []<><<CliStep>>_vars

\* ================================================================ claims
\* ----- chunker (ChunkSpec)
SectionTexts == [i \in 1..Len(sections) |-> sections[i].text]

IsOversizedSingleton(t) ==
    /\ Paragraphs(t) = <<t>>
    /\ Len(t) > max_section_length

\* C1: every section returned by create_sections is at most
\* max_section_length characters long, or is exactly one paragraph that is
\* itself longer than max_section_length
C1_SectionSizeBound ==
    chunk_pc = "returned" =>
        \A i \in 1..Len(sections) :
            \/ Len(sections[i].text) <= max_section_length
            \/ IsOversizedSingleton(sections[i].text)

\* C1 witness: a multi-section result holding an oversized one-paragraph
\* section next to a section within the limit
C1_Witness ==
    /\ chunk_pc = "returned"
    /\ Len(sections) >= 2
    /\ \E i \in 1..Len(sections) : IsOversizedSingleton(sections[i].text)
    /\ \E i \in 1..Len(sections) : Len(sections[i].text) <= max_section_length

\* C2: the section texts joined by the blank line give back the non-empty
\* trimmed paragraphs of the trimmed input, in order, and the sections are
\* numbered 0..n-1
C2_CoverageAndOrder ==
    chunk_pc = "returned" =>
        /\ Paragraphs(JoinBlank(SectionTexts)) = Paragraphs(Strip(text))
        /\ \A i \in 1..Len(sections) : sections[i].section_number = i - 1

\* C2 witness: three sections made of distinct paragraphs
C2_Witness ==
    /\ chunk_pc = "returned"
    /\ Len(sections) = 3
    /\ sections[1].text # sections[2].text
    /\ sections[3].section_number = 2

\* C3 as stated: every input of length at most max_section_length gives
\* exactly one section, headed "Full Document" and numbered 0
C3_ShortTextOneSection ==
    (chunk_pc = "returned" /\ Len(text) <= max_section_length) =>
        /\ Len(sections) = 1
        /\ sections[1].heading = FullDocumentHeading
        /\ sections[1].section_number = 0

\* C3 amended: every input of length at most max_section_length that is
\* not empty after trimming gives exactly one section, headed
\* "Full Document" and numbered 0
C3_ShortNonEmptyTextOneSection ==
    (chunk_pc = "returned" /\ Len(text) <= max_section_length
                           /\ Strip(text) # <<>>) =>
        /\ Len(sections) = 1
        /\ sections[1].heading = FullDocumentHeading
        /\ sections[1].section_number = 0

\* C3 witness: a short text of two paragraphs kept as one section
C3_Witness ==
    /\ chunk_pc = "returned"
    /\ Len(text) <= max_section_length
    /\ Len(Paragraphs(text)) = 2
    /\ Len(sections) = 1

\* C4: a text that is empty, or empty after trimming, gives the empty
\* list of sections, and the call returns
C4_EmptyTextNoSections ==
    (chunk_pc # "ready" /\ Strip(text) = <<>>) =>
        /\ chunk_pc = "returned"
        /\ sections = <<>>

\* C4 witness: a whitespace-only text has been chunked
C4_Witness ==
    /\ chunk_pc = "returned"
    /\ text # <<>>
    /\ Strip(text) = <<>>
    /\ sections = <<>>

\* the paragraphs of all sections, in order
RECURSIVE ParagraphsOfSections(_)
ParagraphsOfSections(secs) ==
    IF secs = <<>> THEN <<>>
    ELSE Paragraphs(Head(secs).text) \o ParagraphsOfSections(Tail(secs))

\* C16: when the trimmed text is longer than max_section_length, the
\* paragraphs of the sections are the paragraphs of the text, one for one
\* and in order, and every paragraph longer than max_section_length is the
\* whole text of the section that holds it
C16_OversizedParagraphAlone ==
    (chunk_pc = "returned" /\ Len(Strip(text)) > max_section_length) =>
        /\ ParagraphsOfSections(sections) = Paragraphs(Strip(text))
        /\ \A i \in 1..Len(sections) :
              \A q \in 1..Len(Paragraphs(sections[i].text)) :
                  Len(Paragraphs(sections[i].text)[q]) > max_section_length
                      => sections[i].text = Paragraphs(sections[i].text)[q]

\* C16 witness: an oversized paragraph that opened the buffer, emitted
\* alone when a paragraph that would have fitted next to a shorter one
\* follows it
C16_Witness ==
    /\ chunk_pc = "returned"
    /\ Len(Paragraphs(Strip(text))) = 2
    /\ Len(Paragraphs(Strip(text))[1]) > max_section_length
    /\ Len(Paragraphs(Strip(text))[2]) < max_section_length
    /\ Len(sections) = 2
    /\ sections[1].text = Paragraphs(Strip(text))[1]

\* ----- gateway (LLMSpec)
CallEvents == SelectSeq(events, LAMBDA e : e.kind = "call")
SleepEvents == SelectSeq(events, LAMBDA e : e.kind = "sleep")
NumFailed == Len(SelectSeq(CallEvents, LAMBDA e : ~e.ok))
AllFailed == \A i \in 1..Len(events) : events[i].kind = "call" => ~events[i].ok
LastEvent == events[Len(events)]

\* C5: when the first k requests fail and the next one succeeds, with
\* 1 <= k < max_retries, call_llm returns that request's completion, and it
\* slept base_delay*2^0 .. base_delay*2^(k-1), once before each retry and
\* neither before the first request nor after the successful one
C5_BackoffSchedule ==
    (llm_pc = "returned" /\ NumFailed \in 1..(max_retries - 1)) =>
        /\ LastEvent.kind = "call" /\ LastEvent.ok
        /\ llm_result = <<LastEvent.result>>
        /\ Len(events) = 2 * NumFailed + 1
        /\ events[1].kind = "call"
        /\ \A j \in 1..NumFailed :
              /\ events[2 * j].kind = "sleep"
              /\ events[2 * j].delay = base_delay * 2^(j - 1)
              /\ events[2 * j + 1].kind = "call"

\* C5 witness: success at the third request, after two failures
C5_Witness ==
    /\ llm_pc = "returned"
    /\ NumFailed = 2
    /\ Len(SleepEvents) = 2

\* C6: while every request fails, call_llm neither returns nor stops early:
\* it raises exactly when 1 + max_retries requests have been made, the
\* error raised is the error of the last request, and nothing is returned
C6_RetryExhaustion ==
    (events # <<>> /\ AllFailed) =>
        /\ llm_pc # "returned"
        /\ llm_result = <<>>
        /\ Len(CallEvents) <= 1 + max_retries
        /\ llm_pc = "raised" <=>
              (Len(CallEvents) = 1 + max_retries /\ LastEvent.kind = "call")
        /\ llm_pc = "raised" => llm_error = LastEvent.error

\* C6 witness: the call has raised, and the first request had failed with
\* another error than the last
C6_Witness ==
    /\ llm_pc = "raised"
    /\ AllFailed
    /\ events[1].error # llm_error

\* ----- token estimate (TokSpec)
\* C7 as stated: the estimate is the length divided by 4, rounded up
C7_EstimateIsCeiling ==
    tok_pc # "ready" => estimated_tokens = (prompt_len + 3) \div 4

\* C7 amended: the estimate is the length divided by 4, rounded down; a
\* text of 400 characters is estimated at 100 tokens
C7_EstimateIsFloor ==
    tok_pc # "ready" =>
        /\ 4 * estimated_tokens <= prompt_len
        /\ prompt_len < 4 * estimated_tokens + 4
        /\ prompt_len = 400 => estimated_tokens = 100

\* C7 witness: the estimate of a 400-character text
C7_Witness ==
    /\ tok_pc = "estimated"
    /\ prompt_len = 400
    /\ estimated_tokens = 100

\* C8: check_token_limit is true exactly when 5 * estimate < 4 * limit,
\* the limit being the table entry of the model, or 4000 for a model the
\* table does not list
C8_TokenLimitCheck ==
    tok_pc = "checked" =>
        (within_limit <=>
            5 * estimated_tokens <
                4 * (IF tok_model \in DOMAIN limits THEN limits[tok_model]
                                                    ELSE 4000))

\* C8 witness: an unlisted model, checked with the largest estimate that
\* passes
C8_Witness ==
    /\ tok_pc = "checked"
    /\ tok_model \notin DOMAIN limits
    /\ estimated_tokens = 3199
    /\ within_limit

\* ----- services (SvcSpec)
\* the sections of file f of job j, and of document f of the folder
HttpSectionsOf(j, f) ==
    IF ReadFails(tasks[j].file_info[f].original_filename) THEN <<>>
    ELSE CreateSections(uploads[tasks[j].file_info[f].file_path],
                        max_section_length)
CliSectionsOf(f) == CreateSections(cli.documents[f].text, max_section_length)

HttpReadable(j, f) == ~ReadFails(tasks[j].file_info[f].original_filename)

\* the calls of a gateway log, and the writes of a write log, made for
\* file f
CallsFor(log, f) == SelectSeq(log, LAMBDA c : c.file = f)
WritesFor(log, f) == SelectSeq(log, LAMBDA w : w.file = f)

AllEmpty(ws) == \A n \in 1..Len(ws) : ws[n].content = <<>>

\* C9: a document with zero sections never gets a gateway call, and once
\* the run is past it both of its joined outputs were the empty string:
\* the service wrote two empty outputs, the command-line tool passed the
\* empty string to every write it attempted (both, when the first did not
\* fail)
C9_NoSectionsNoCalls ==
    /\ \A j \in DOMAIN tasks : \A f \in 1..Len(tasks[j].file_info) :
          (HttpReadable(j, f) /\ HttpSectionsOf(j, f) = <<>>) =>
              /\ CallsFor(tasks[j].calls, f) = <<>>
              /\ tasks[j].i > f =>
                    /\ Len(WritesFor(tasks[j].writes, f)) = 2
                    /\ AllEmpty(WritesFor(tasks[j].writes, f))
                    /\ processing_status[j].files[f].status = "completed"
    /\ \A f \in 1..Len(cli.documents) :
          CliSectionsOf(f) = <<>> =>
              /\ CallsFor(cli.calls, f) = <<>>
              /\ cli.i > f =>
                    /\ Len(WritesFor(cli.writes, f)) >= 1
                    /\ AllEmpty(WritesFor(cli.writes, f))
                    /\ WritesFor(cli.writes, f)[1].ok =>
                          Len(WritesFor(cli.writes, f)) = 2

\* C9 witness: the service is past a zero-section file and has called the
\* gateway for another file of the same job
C9_Witness ==
    \E j \in DOMAIN tasks : \E f \in 1..Len(tasks[j].file_info) :
        /\ HttpReadable(j, f)
        /\ HttpSectionsOf(j, f) = <<>>
        /\ tasks[j].i > f
        /\ tasks[j].calls # <<>>
        /\ Len(WritesFor(tasks[j].writes, f)) = 2

\* the parts joined by blank lines, built from the right
RECURSIVE BlankLineJoined(_)
BlankLineJoined(parts) ==
    IF parts = <<>> THEN <<>>
    ELSE IF Len(parts) = 1 THEN parts[1]
         ELSE BlankLineJoined(SubSeq(parts, 1, Len(parts) - 1))
                  \o <<NL, NL>> \o parts[Len(parts)]

\* acc holds one completion per section of secs, the i-th being the
\* result logged for the call of file f, section i, made in that mode with
\* the prompt P builds from the section
AccumulatorMatches(acc, log, f, secs, mode, P(_)) ==
    /\ Len(acc) = Len(secs)
    /\ \A i \in 1..Len(secs) :
          \E n \in 1..Len(log) :
              /\ log[n].file = f
              /\ log[n].section = i - 1
              /\ log[n].mode = mode
              /\ log[n].prompt = P(secs[i])
              /\ log[n].ok
              /\ log[n].result = acc[i]

\* a write of the plain-English output, by the name of its file
IsPlainWrite(w) == w.path.file.suffix = "_plainEnglish.docx"

WriteMatches(w, log, secs) ==
    /\ IF IsPlainWrite(w)
       THEN AccumulatorMatches(w.parts, log, w.file, secs, "plain_english",
                               PlainEnglishPrompt)
       ELSE AccumulatorMatches(w.parts, log, w.file, secs, "summary",
                               SummaryPrompt)
    /\ w.content = BlankLineJoined(w.parts)

\* C10: when all calls of a document with n sections have succeeded, each
\* accumulator holds n completions, the i-th being the one returned for
\* section i's prompt of that mode, and every output string handed to the
\* writer is those n completions, in section order, joined by blank lines
C10_OrderedAccumulators ==
    /\ \A j \in DOMAIN tasks :
          /\ tasks[j].pc = "write" =>
                /\ AccumulatorMatches(tasks[j].plain_english_content,
                                      tasks[j].calls, tasks[j].i,
                                      tasks[j].sections, "plain_english",
                                      PlainEnglishPrompt)
                /\ AccumulatorMatches(tasks[j].summary_content,
                                      tasks[j].calls, tasks[j].i,
                                      tasks[j].sections, "summary",
                                      SummaryPrompt)
          /\ \A n \in 1..Len(tasks[j].writes) :
                WriteMatches(tasks[j].writes[n], tasks[j].calls,
                             HttpSectionsOf(j, tasks[j].writes[n].file))
    /\ cli.pc = "write" =>
          /\ AccumulatorMatches(cli.plain_english_parts, cli.calls, cli.i,
                                cli.sections, "plain_english",
                                PlainEnglishPrompt)
          /\ AccumulatorMatches(cli.summary_parts, cli.calls, cli.i,
                                cli.sections, "summary", SummaryPrompt)
    /\ \A n \in 1..Len(cli.writes) :
          WriteMatches(cli.writes[n], cli.calls,
                       CliSectionsOf(cli.writes[n].file))

\* C10 witness: the service has written the outputs of a two-section
\* file, the summary being the second and the fourth completion
C10_Witness ==
    \E j \in DOMAIN tasks : \E n \in 1..Len(tasks[j].writes) :
        LET w == tasks[j].writes[n] IN
        /\ ~IsPlainWrite(w)
        /\ Len(w.parts) = 2
        /\ w.content = Completion(j, 2) \o <<NL, NL>> \o Completion(j, 4)
        /\ outputs[w.path] = w.content

\* the failed calls of file f in a gateway log are followed by no call of
\* file f, the run (now at file i) is past f, and the write log has nothing
\* of f
StopsAtFailure(log, wlog, i, f) ==
    \A n \in 1..Len(log) :
        (log[n].file = f /\ ~log[n].ok) =>
            /\ \A m \in (n + 1)..Len(log) : log[m].file # f
            /\ i > f
            /\ WritesFor(wlog, f) = <<>>

\* C11: once a gateway call of a document has failed, no later gateway
\* call is made for that document (neither the other prompt of the section
\* nor any later section), the run has left the document, and no output of
\* the document was handed to the writer; the service marks the file as
\* failed
C11_FailureStopsDocument ==
    /\ \A j \in DOMAIN tasks : \A f \in 1..Len(tasks[j].file_info) :
          /\ StopsAtFailure(tasks[j].calls, tasks[j].writes, tasks[j].i, f)
          /\ (\E n \in 1..Len(tasks[j].calls) :
                 tasks[j].calls[n].file = f /\ ~tasks[j].calls[n].ok) =>
                processing_status[j].files[f].status = "error"
    /\ \A f \in 1..Len(cli.documents) :
          StopsAtFailure(cli.calls, cli.writes, cli.i, f)

\* C11 witness: the plain-English call of the first of two sections of a
\* file failed, and the service has called the gateway for the next file
C11_Witness ==
    \E j \in DOMAIN tasks : \E n \in 1..Len(tasks[j].calls) :
        LET c == tasks[j].calls[n] IN
        /\ ~c.ok
        /\ c.mode = "plain_english"
        /\ c.section = 0
        /\ Len(HttpSectionsOf(j, c.file)) = 2
        /\ \E m \in (n + 1)..Len(tasks[j].calls) :
              tasks[j].calls[m].file = c.file + 1

\* a call of file f in the log has failed
HasFailedCall(log, f) == \E n \in 1..Len(log) : log[n].file = f /\ ~log[n].ok

\* file f, whose sections are secs, was sent to the gateway when it has
\* sections, and both of its outputs were saved when none of its calls
\* failed
ProcessedToTheEnd(log, wlog, f, secs) ==
    /\ secs # <<>> => CallsFor(log, f) # <<>>
    /\ ~HasFailedCall(log, f) =>
          /\ Len(CallsFor(log, f)) = 2 * Len(secs)
          /\ Len(WritesFor(wlog, f)) = 2
          /\ \A n \in 1..2 : WritesFor(wlog, f)[n].ok

\* the service, once past a readable file that comes after a file with a
\* failed call, has processed it to the end
HttpLaterDocumentsProcessed ==
    \A j \in DOMAIN tasks : \A g, f \in 1..Len(tasks[j].file_info) :
        (g < f /\ HasFailedCall(tasks[j].calls, g) /\ tasks[j].i > f
               /\ HttpReadable(j, f)) =>
            /\ ProcessedToTheEnd(tasks[j].calls, tasks[j].writes, f,
                                 HttpSectionsOf(j, f))
            /\ \A n \in 1..Len(WritesFor(tasks[j].writes, f)) :
                  WritesFor(tasks[j].writes, f)[n].path \in DOMAIN outputs

\* the same for the command-line tool and the documents of its folder
CliLaterDocumentsProcessed ==
    \A g, f \in 1..Len(cli.documents) :
        (g < f /\ HasFailedCall(cli.calls, g) /\ cli.i > f) =>
            ProcessedToTheEnd(cli.calls, cli.writes, f, CliSectionsOf(f))

\* C12 as stated: in a job and in a folder run, every document after one
\* whose gateway call failed is still chunked and sent to the gateway, and
\* both of its outputs are written when its own calls succeed
C12_LaterDocumentsProcessed ==
    /\ HttpLaterDocumentsProcessed
    /\ CliLaterDocumentsProcessed

\* the mode of the n-th call of a document
ModeOfCall(n) == IF n % 2 = 1 THEN "plain_english" ELSE "summary"

\* the calls logged for file f are plain(0), summary(0), plain(1), ... in
\* that order, and each but the last returned a completion
InCallOrder(log, f) ==
    LET L == CallsFor(log, f) IN
    \A n \in 1..Len(L) :
        /\ L[n].section = (n - 1) \div 2
        /\ L[n].mode = ModeOfCall(n)
        /\ n < Len(L) => L[n].ok

\* the calls a run has in flight: the one it awaits, if any, named by
\* file, section and mode
InFlight(t) ==
    IF t.pc = "await_plain" THEN {<<t.i, t.k - 1, "plain_english">>}
    ELSE IF t.pc = "await_summary" THEN {<<t.i, t.k - 1, "summary">>}
    ELSE {}

\* the call in flight is the one that follows the logged calls of its
\* file, all of which returned a completion
InFlightIsNext(t) ==
    \A c \in InFlight(t) :
        LET L == CallsFor(t.calls, c[1]) IN
        /\ c[2] = Len(L) \div 2
        /\ c[3] = ModeOfCall(Len(L) + 1)
        /\ \A n \in 1..Len(L) : L[n].ok

OneCallAtATime(t, nfiles) ==
    /\ Cardinality(InFlight(t)) <= 1
    /\ InFlightIsNext(t)
    /\ \A f \in 1..nfiles : InCallOrder(t.calls, f)
    /\ \A n, m \in 1..Len(t.calls) :
          n < m => t.calls[n].file <= t.calls[m].file

\* C13: a run has at most one gateway call in flight; the calls of a
\* document are made in the order plain(0), summary(0), plain(1),
\* summary(1), ..., and the call in flight is the successor of the calls
\* that have returned
C13_SequentialCalls ==
    /\ \A j \in DOMAIN tasks :
          OneCallAtATime(tasks[j], Len(tasks[j].file_info))
    /\ OneCallAtATime(cli, Len(cli.documents))

\* C13 witness: the service awaits the summary of the second section of a
\* file, three calls of that file having returned
C13_Witness ==
    \E j \in DOMAIN tasks :
        /\ tasks[j].pc = "await_summary"
        /\ tasks[j].k = 2
        /\ Len(CallsFor(tasks[j].calls, tasks[j].i)) = 3

\* part is the completion of a call of job j made with a prompt of a
\* section of file f of job j, and of no call of another job
OwnCompletion(j, f, part) ==
    /\ \E n \in 1..Len(tasks[j].calls) :
          LET c == tasks[j].calls[n] IN
          /\ c.ok
          /\ c.result = part
          /\ c.file = f
          /\ \E k \in 1..Len(HttpSectionsOf(j, f)) :
                c.prompt \in {PlainEnglishPrompt(HttpSectionsOf(j, f)[k]),
                              SummaryPrompt(HttpSectionsOf(j, f)[k])}
    /\ \A j2 \in DOMAIN tasks \ {j} : \A n \in 1..Len(tasks[j2].calls) :
          tasks[j2].calls[n].result # part

\* the section list of a run in its section loop is that of its current
\* file; its accumulators and the output strings it handed to the writer
\* are made of its own completions
OwnSectionsAndCompletions ==
    \A j \in DOMAIN tasks :
        LET t == tasks[j] IN
        /\ t.pc \in {"await_plain", "await_summary", "write"} =>
              /\ t.sections = HttpSectionsOf(j, t.i)
              /\ \A n \in 1..Len(t.plain_english_content) :
                    OwnCompletion(j, t.i, t.plain_english_content[n])
              /\ \A n \in 1..Len(t.summary_content) :
                    OwnCompletion(j, t.i, t.summary_content[n])
        /\ \A w \in 1..Len(t.writes) :
              /\ \A n \in 1..Len(t.writes[w].parts) :
                    OwnCompletion(j, t.writes[w].file, t.writes[w].parts[n])
              /\ t.writes[w].content = BlankLineJoined(t.writes[w].parts)

\* a step leaves the status entry of every job whose run did not take it
\* as it was
OthersStatusKept ==
    \A j \in DOMAIN processing_status :
        (j \in DOMAIN tasks /\ tasks'[j] = tasks[j]) =>
            processing_status'[j] = processing_status[j]

\* C14: with the runs of several jobs interleaved at their awaited calls,
\* the section list of a run is that of its own file, its accumulators and
\* the output strings it hands to the writer hold completions of its own
\* prompts only, and a step of one run never changes the processing_status
\* entry of another job
C14_JobIsolation ==
    /\ []OwnSectionsAndCompletions
    /\ [][OthersStatusKept]_vars

\* C14 witness: two jobs are inside their section loops at the same time,
\* one of them with an output string already handed to the writer while
\* the other awaits a call
C14_Witness ==
    \E j1, j2 \in DOMAIN tasks :
        /\ j1 # j2
        /\ tasks[j1].pc = "await_summary"
        /\ tasks[j1].plain_english_content # <<>>
        /\ tasks[j2].calls # <<>>
        /\ tasks[j2].writes # <<>>
        /\ processing_status[j2].status = "completed"

\* what the caller is told about each failed gateway call: the error field
\* of the file in the job status, the detail of the error line of the
\* command-line report; with the section and the mode of the call it is
\* about
HttpFailureReports ==
    UNION {{[section |-> tasks[j].calls[n].section,
             mode |-> tasks[j].calls[n].mode,
             told |-> processing_status[j].files[tasks[j].calls[n].file].error] :
               n \in {m \in 1..Len(tasks[j].calls) : ~tasks[j].calls[m].ok}} :
           j \in DOMAIN tasks}

CliFailureReports ==
    {[section |-> cli.calls[n].section, mode |-> cli.calls[n].mode,
      told |-> <<cli.report[r].detail>>] :
        <<n, r>> \in {x \in (1..Len(cli.calls)) \X (1..Len(cli.report)) :
                         /\ ~cli.calls[x[1]].ok
                         /\ cli.report[x[2]].kind = "error"
                         /\ cli.report[x[2]].file = cli.calls[x[1]].file}}

\* C15 as stated: what is reported for a failed gateway call identifies
\* the section index and the mode of that call, that is, failures of calls
\* that differ in section or mode are never reported alike
C15_FailureReportIdentifiesCall ==
    \A r1, r2 \in HttpFailureReports \cup CliFailureReports :
        r1.told = r2.told => (r1.section = r2.section /\ r1.mode = r2.mode)

\* the files of a status record that have status st
FilesWithStatus(ps, st) == {f \in 1..Len(ps.files) : ps.files[f].status = st}

\* the identifier of file f of job j
FileId(j, f) == tasks[j].file_info[f].file_id

\* C18: a completed file has an entry in processed_files with the paths of
\* its plain-English and of its summary output, both written by its run
\* and present on disk; a file that is queued, in processing or failed has
\* no entry; so a download by file identifier serves both outputs or
\* neither
C18_EntryIffCompleted ==
    \A j \in DOMAIN tasks : \A f \in 1..Len(tasks[j].file_info) :
        LET st == processing_status[j].files[f].status
            ws == WritesFor(tasks[j].writes, f)
        IN  /\ st = "completed" =>
                  /\ FileId(j, f) \in DOMAIN processed_files
                  /\ Len(ws) = 2
                  /\ ws[1].ok /\ ws[2].ok
                  /\ IsPlainWrite(ws[1]) /\ ~IsPlainWrite(ws[2])
                  /\ processed_files[FileId(j, f)] =
                        [plain_english |-> ws[1].path, summary |-> ws[2].path]
                  /\ {ws[1].path, ws[2].path} \subseteq DOMAIN outputs
                  /\ DownloadFile(FileId(j, f), "plain").code = 200
                  /\ DownloadFile(FileId(j, f), "summary").code = 200
            /\ st # "completed" =>
                  /\ FileId(j, f) \notin DOMAIN processed_files
                  /\ DownloadFile(FileId(j, f), "plain").code = 404
                  /\ DownloadFile(FileId(j, f), "summary").code = 404

\* C18 witness: in one job a file is completed and served, the file
\* before it failed at its summary call, after its plain-English call had
\* returned, and has no entry
C18_Witness ==
    \E j \in DOMAIN tasks :
        /\ Len(tasks[j].file_info) = 2
        /\ processing_status[j].files[1].status = "error"
        /\ \E n \in 1..Len(tasks[j].calls) :
              /\ tasks[j].calls[n].file = 1
              /\ tasks[j].calls[n].mode = "summary"
              /\ ~tasks[j].calls[n].ok
        /\ FileId(j, 1) \notin DOMAIN processed_files
        /\ processing_status[j].files[2].status = "completed"
        /\ DownloadFile(FileId(j, 2), "summary").code = 200

\* the completed files, each as <<job, position in the job>>
CompletedFiles ==
    UNION {{<<j, f>> : f \in FilesWithStatus(processing_status[j], "completed")} :
           j \in DOMAIN tasks}

OutputPathsOf(x) ==
    {processed_files[FileId(x[1], x[2])].plain_english,
     processed_files[FileId(x[1], x[2])].summary}

\* C19 as stated: two distinct completed files have no output path in
\* common, and a download by file identifier serves what the run of that
\* file wrote
C19_DistinctOutputPaths ==
    /\ \A x, y \in CompletedFiles :
          x # y => OutputPathsOf(x) \cap OutputPathsOf(y) = {}
    /\ \A x \in CompletedFiles :
          LET ws == WritesFor(tasks[x[1]].writes, x[2])
              plain == DownloadFile(FileId(x[1], x[2]), "plain")
              summary == DownloadFile(FileId(x[1], x[2]), "summary")
          IN  /\ plain.code = 200 /\ summary.code = 200
              /\ outputs[plain.path[1]] = ws[1].content
              /\ outputs[summary.path[1]] = ws[2].content

\* ----- services (SvcFairSpec)
JobRank(st) ==
    CASE st = "queued" -> 0 [] st = "processing" -> 1
      [] st = "completed" -> 2 [] OTHER -> -1

FileRank(st) ==
    CASE st = "queued" -> 0 [] st = "processing" -> 1
      [] st \in {"completed", "error"} -> 2 [] OTHER -> -1

\* the status record of job j in one state: legal values, files taken in
\* upload order and one at a time, the counter of completed files, and the
\* job marked completed exactly when its run has ended
StatusWellFormed(j) ==
    LET ps == processing_status[j] IN
    /\ JobRank(ps.status) >= 0
    /\ \A f \in 1..Len(ps.files) : FileRank(ps.files[f].status) >= 0
    /\ \A f, g \in 1..Len(ps.files) :
          (f < g /\ ps.files[g].status # "queued") =>
              ps.files[f].status \in {"completed", "error"}
    /\ Cardinality(FilesWithStatus(ps, "processing")) <= 1
    /\ ps.status = "queued" => FilesWithStatus(ps, "queued") = 1..Len(ps.files)
    /\ ps.completed_files = Cardinality(FilesWithStatus(ps, "completed"))
    /\ ps.completed_files <= ps.total_files
    /\ ps.total_files = Len(ps.files)
    /\ ps.status = "completed" <=> tasks[j].pc = "done"
    /\ ps.status = "completed" =>
          \A f \in 1..Len(ps.files) :
              ps.files[f].status \in {"completed", "error"}

\* one step: no status goes back, and a file that is completed or failed
\* keeps its status and its error
StatusMovesForward(j) ==
    LET ps == processing_status[j]
        ps2 == processing_status'[j]
    IN  /\ JobRank(ps2.status) >= JobRank(ps.status)
        /\ Len(ps2.files) = Len(ps.files)
        /\ \A f \in 1..Len(ps.files) :
              /\ FileRank(ps2.files[f].status) >= FileRank(ps.files[f].status)
              /\ ps.files[f].status \in {"completed", "error"} =>
                    ps2.files[f] = ps.files[f]

\* C17: the status of a job is queued, processing or completed and never
\* goes back; the status of a file goes from queued over processing to
\* completed or error and then stays; files are taken in upload order, at
\* most one being in processing; completed_files counts the completed
\* files and is at most total_files; and every job that was uploaded gets
\* to status completed, which it has exactly when its run has ended, also
\* when all its files failed
C17_StatusLifecycle ==
    /\ [](\A j \in DOMAIN processing_status : StatusWellFormed(j))
    /\ [][\A j \in DOMAIN processing_status : StatusMovesForward(j)]_vars
    /\ \A j \in 1..MaxFiles :
          (j \in DOMAIN processing_status) ~>
              (j \in DOMAIN processing_status
                  /\ processing_status[j].status = "completed")

\* C17 witness: a job of two files has ended as completed although both
\* files failed, one of them at a gateway call
C17_Witness ==
    \E j \in DOMAIN tasks :
        /\ tasks[j].pc = "done"
        /\ processing_status[j].status = "completed"
        /\ processing_status[j].total_files = 2
        /\ FilesWithStatus(processing_status[j], "error") = {1, 2}
        /\ processing_status[j].completed_files = 0
        /\ tasks[j].calls # <<>>
====
